---- MODULE Spec2Model ----
(***************************************************************************)
(* Model of src/src/ApiClient.ts: the ApiClient endpoint methods, the      *)
(* ApiRequest constructor and concatUrl, the transport call and the        *)
(* response classifier ApiResponse.from.                                   *)
(*                                                                         *)
(* Strings are sequences of tokens.  A token is a TLA+ string that holds   *)
(* either one special character ("/", "?", "&", "=", ":") or a run of      *)
(* letters and digits, so that endsWith, startsWith and slice(1) on a      *)
(* string act on whole tokens exactly as they act on characters.           *)
(*                                                                         *)
(* URL objects live in a heap (ref -> value): concatUrl writes through the *)
(* reference it is given and returns that same reference.                  *)
(***************************************************************************)
EXTENDS Integers, Sequences, FiniteSets, TLC

VARIABLES
    heap,      \* URL objects: ref -> [pathname, search]
    base0,     \* the value of the client's base URL when the client was constructed
    reqs,      \* ApiRequest objects constructed so far, in order
    calls,     \* endpoint calls started so far: position, response, parsed body, outcome
    sent,      \* the last network call: who issued it and what fetch() was given
    made,      \* the arguments of the last direct construction of an ApiRequest
    cu         \* the direct calls of ApiRequest.concatUrl: arguments and result

vars == <<heap, base0, reqs, calls, sent, made, cu>>

\* ------------------------------------------------------------------ bounds
\* Endpoint calls per behaviour of Spec.
MaxCalls == 2
\* Endpoint calls per behaviour of SpecClassify.
MaxClassifyCalls == 1
\* ApiRequest constructions per behaviour of SpecRequest.
MaxRequests == 2
\* Direct concatUrl calls per behaviour of SpecConcat.
MaxConcats == 2

\* ----------------------------------------------------------------- strings
None == <<>>

\* String.prototype.endsWith / startsWith with a one-character argument.
endsWith(s, c) == Len(s) > 0 /\ s[Len(s)] = c

startsWith(s, c) == Len(s) > 0 /\ s[1] = c

\* String.prototype.slice(1).
slice1(s) == IF Len(s) = 0 THEN s ELSE Tail(s)

RECURSIVE JoinWith(_, _)
\* Array.prototype.join: the strings of ss with sep between neighbours.
JoinWith(ss, sep) ==
    IF ss = <<>> THEN <<>>
    ELSE IF Len(ss) = 1 THEN Head(ss)
    ELSE Head(ss) \o sep \o JoinWith(Tail(ss), sep)

\* Whether string part occurs in string whole.
Contains(whole, part) ==
    \E i \in 1..(Len(whole) - Len(part) + 1) :
        SubSeq(whole, i, i + Len(part) - 1) = part

\* Number.prototype.toString for the non-negative integers used here.
NumberToString(n) == <<ToString(n)>>

\* -------------------------------------------------------------------- URL
\* The one URL object of a behaviour: the client's baseUrl (or, for a direct
\* concatUrl call, the URL the caller passes).
BaseRef == 1

\* ApiRequest.concatUrl: writes the joined path into the URL object it was
\* given and returns that object.
concatUrl(h, baseUrl, path) ==
    [heap |-> [h EXCEPT ![baseUrl].pathname =
                   h[baseUrl].pathname \o
                   (IF endsWith(h[baseUrl].pathname, "/") /\ startsWith(path, "/")
                    THEN slice1(path) ELSE path)],
     ret  |-> baseUrl]

\* The setter of URL.search: the empty string clears the query, any other
\* value becomes the query behind one "?".
SetSearch(u, s) ==
    [u EXCEPT !.search = IF s = <<>> THEN <<>>
                         ELSE <<"?">> \o (IF startsWith(s, "?") THEN Tail(s) ELSE s)]

\* ---------------------------------------------------------- URLSearchParams
\* application/x-www-form-urlencoded byte serialisation of one token: letters
\* and digits stay, ":" is percent-encoded.
FormEncode(tok) == IF tok = ":" THEN "%3A" ELSE tok

FormEncodeString(s) == [i \in 1..Len(s) |-> FormEncode(s[i])]

\* URLSearchParams.prototype.set: replaces the first pair of that name and
\* drops the others, or appends.
UspSet(usp, name, value) ==
    IF \E i \in 1..Len(usp) : usp[i][1] = name
    THEN LET first == CHOOSE i \in 1..Len(usp) :
                          /\ usp[i][1] = name
                          /\ \A j \in 1..(i - 1) : usp[j][1] # name
             kept  == [i \in 1..Len(usp) |->
                          IF i = first THEN <<TRUE, <<name, value>>>>
                          ELSE <<usp[i][1] # name, usp[i]>>]
             sel   == SelectSeq(kept, LAMBDA e : e[1])
         IN  [i \in 1..Len(sel) |-> sel[i][2]]
    ELSE Append(usp, <<name, value>>)

\* URLSearchParams.prototype.append.
UspAppend(usp, name, value) == Append(usp, <<name, value>>)

\* URLSearchParams.prototype.toString.
UspToString(usp) ==
    JoinWith([i \in 1..Len(usp) |->
                 FormEncodeString(usp[i][1]) \o <<"=">> \o FormEncodeString(usp[i][2])],
             <<"&">>)

RECURSIVE SplitOn(_, _)
\* String.prototype.split with a one-character separator.
SplitOn(s, sep) ==
    IF \E i \in 1..Len(s) : s[i] = sep
    THEN LET i == CHOOSE j \in 1..Len(s) :
                      s[j] = sep /\ \A m \in 1..(j - 1) : s[m] # sep
         IN  <<SubSeq(s, 1, i - 1)>> \o SplitOn(SubSeq(s, i + 1, Len(s)), sep)
    ELSE <<s>>

\* The names url.searchParams would list for a search string: the query
\* behind the "?" is cut at "&", and each piece at its first "=".
SearchNames(search) ==
    LET query  == IF startsWith(search, "?") THEN Tail(search) ELSE search
        pieces == SelectSeq(SplitOn(query, "&"), LAMBDA p : p # <<>>)
    IN  { Head(SplitOn(pieces[i], "=")) : i \in 1..Len(pieces) }

\* ----------------------------------------------------------------- Headers
\* Header names as callers may spell them, and the byte-lowercased name the
\* Headers class files them under.
Lower(name) ==
    CASE name = "Content-Type" -> "content-type"
      [] name = "CONTENT-TYPE" -> "content-type"
      [] name = "Accept"       -> "accept"
      [] OTHER                 -> name

\* Headers.prototype.append: a Headers object is the list of its
\* (lower-cased name, value) pairs.
HeadersAppend(h, name, value) == Append(h, <<Lower(name), value>>)

RECURSIVE NewHeaders(_)
\* new Headers(init): appends every pair of init in order.
NewHeaders(init) ==
    IF init = <<>> THEN <<>>
    ELSE LET n == Len(init)
         IN  HeadersAppend(NewHeaders(SubSeq(init, 1, n - 1)), init[n][1], init[n][2])

\* Headers.prototype.delete.
HeadersDelete(h, name) == SelectSeq(h, LAMBDA e : e[1] # Lower(name))

\* Headers.prototype.set: the first pair of that name takes the value and the
\* others go, or the pair is appended.
HeadersSet(h, name, value) == UspSet(h, Lower(name), value)

\* Headers.prototype.get: the values filed under the name joined by ", "
\* (None stands for null: no such header).
HeadersGet(h, name) ==
    LET mine == SelectSeq(h, LAMBDA e : e[1] = Lower(name))
    IN  IF mine = <<>> THEN None
        ELSE JoinWith([i \in 1..Len(mine) |-> <<mine[i][2]>>], <<", ">>)

\* -------------------------------------------------------------------- JSON
\* Parsed JSON values, tagged by kind; an object is the list of its
\* (key, value) pairs in source order, its keys distinct.
JNull == [t |-> "null"]

JNum(n) == [t |-> "number", n |-> n]

JStr(s) == [t |-> "string", s |-> s]

JBool(b) == [t |-> "boolean", b |-> b]

JArr(items) == [t |-> "array", items |-> items]

JObj(props) == [t |-> "object", props |-> props]

\* The typeof operator on a parsed JSON value.
TypeOf(v) ==
    IF v.t \in {"null", "array", "object"} THEN "object" ELSE v.t

\* Whether a value is an Object in the language's sense, that is, whether the
\* in operator accepts it as its right-hand side.
IsObject(v) == v.t \in {"array", "object"}

\* key in v, for an Object v and the keys "error" and "message": an array
\* parsed from JSON has index keys and length only.
HasProperty(v, key) ==
    v.t = "object" /\ \E i \in 1..Len(v.props) : v.props[i][1] = key

\* v[key] for an object that has the key.
GetProperty(v, key) ==
    v.props[CHOOSE i \in 1..Len(v.props) : v.props[i][1] = key][2]

RECURSIVE Stringify(_)
\* JSON.stringify.
Stringify(v) ==
    CASE v.t = "null"    -> <<"null">>
      [] v.t = "number"  -> NumberToString(v.n)
      [] v.t = "string"  -> <<"\"" \o v.s \o "\"">>
      [] v.t = "boolean" -> IF v.b THEN <<"true">> ELSE <<"false">>
      [] v.t = "array"   ->
            <<"[">> \o JoinWith([i \in 1..Len(v.items) |-> Stringify(v.items[i])], <<",">>)
                    \o <<"]">>
      [] v.t = "object"  ->
            <<"{">> \o JoinWith([i \in 1..Len(v.props) |->
                                    <<"\"" \o v.props[i][1] \o "\"", ":">>
                                        \o Stringify(v.props[i][2])],
                                <<",">>)
                    \o <<"}">>

RECURSIVE JsToString(_)
\* The language's ToString conversion, which the Error constructor applies to
\* its message argument.
JsToString(v) ==
    CASE v.t = "null"    -> <<"null">>
      [] v.t = "number"  -> NumberToString(v.n)
      [] v.t = "string"  -> <<v.s>>
      [] v.t = "boolean" -> IF v.b THEN <<"true">> ELSE <<"false">>
      [] v.t = "array"   ->
            JoinWith([i \in 1..Len(v.items) |->
                         IF v.items[i].t = "null" THEN <<>> ELSE JsToString(v.items[i])],
                     <<",">>)
      [] v.t = "object"  -> <<"[object Object]">>

\* -------------------------------------------------------------------- Body
\* new Body(contentType, body).
NewBody(contentType, body) == [contentType |-> contentType, body |-> body]

\* new JsonBody(json).
NewJsonBody(json) == NewBody("application/json", Stringify(json))

\* -------------------------------------------------------------- ApiRequest
\* The client: its baseUrl field refers to the URL object it was given.
api == [baseUrl |-> BaseRef]

\* The constructor with the body's content-type appended to the caller's
\* headers instead of replacing them (lines 171-172 as one headers.append).
NewApiRequestAppendsContentType(h, client, path, query, headersInit, method, body) ==
    LET c       == concatUrl(h, client.baseUrl, path)
        h2      == [c.heap EXCEPT ![c.ret] = SetSearch(@, UspToString(query))]
        headers == NewHeaders(headersInit)
        attach  == body # <<>> /\ method # "GET" /\ method # "HEAD"
    IN  [heap |-> h2,
         req  |-> [url     |-> c.ret,
                   headers |-> IF attach
                               THEN HeadersAppend(headers, "content-type",
                                                  body[1].contentType)
                               ELSE headers,
                   method  |-> method,
                   body    |-> IF attach THEN body ELSE <<>>]]

\* new ApiRequest(api, path, query, headersInit, method, body).  An optional
\* argument is <<>> when absent and <<value>> when given; the descriptor's
\* body is <<>> for null.  Yields the heap after construction and the object.
NewApiRequest(h, client, path, query, headersInit, method, body) ==
    LET c       == concatUrl(h, client.baseUrl, path)
        h2      == [c.heap EXCEPT ![c.ret] = SetSearch(@, UspToString(query))]
        headers == NewHeaders(headersInit)
        attach  == body # <<>> /\ method # "GET" /\ method # "HEAD"
    IN  [heap |-> h2,
         req  |-> [url     |-> c.ret,
                   headers |-> IF attach
                               THEN HeadersSet(HeadersDelete(headers, "content-type"),
                                               "content-type", body[1].contentType)
                               ELSE headers,
                   method  |-> method,
                   body    |-> IF attach THEN body ELSE <<>>]]

\* ApiRequest.prototype.fetch: what the platform's fetch() is given.  The URL
\* is read from the object the descriptor refers to, when the call is made.
RequestFetch(h, req) ==
    [url     |-> h[req.url],
     method  |-> req.method,
     headers |-> req.headers,
     body    |-> IF req.body = <<>> THEN <<>> ELSE <<req.body[1].body>>]

\* ------------------------------------------------------------- ApiResponse
\* new ApiResponse(req, res, body).
NewApiResponse(req, res, body) == [req |-> req, res |-> res, body |-> body]

\* ApiError with the message serialised as JSON instead of passed as it is.
NewApiErrorStringified(envelope) ==
    [kind    |-> "ApiError",
     message |-> Stringify(GetProperty(GetProperty(envelope.body, "error"), "message")),
     res     |-> envelope]

\* new ApiError(res), thrown: Error's constructor converts the message.
NewApiError(envelope) ==
    [kind    |-> "ApiError",
     message |-> JsToString(GetProperty(GetProperty(envelope.body, "error"), "message")),
     res     |-> envelope]

\* The TypeError the in operator throws for a right-hand side that is not an
\* Object (the message is the V8 engine's).
InTypeError(key, v) ==
    [kind    |-> "TypeError",
     message |-> <<"Cannot use 'in' operator to search for '", key, "' in ">>
                     \o JsToString(v)]

\* The Error of line 147.
UnknownError(res, body) ==
    [kind    |-> "Error",
     message |-> <<"Unknown error response received. status=">>
                     \o NumberToString(res.status) \o <<" body=">> \o Stringify(body)]

\* Lines 145-147: what ApiResponse.from throws for a response that is not ok.
\* The condition of line 145 is evaluated left to right.
ThrowFor(req, res, body) ==
    IF ~IsObject(body) THEN InTypeError("error", body)
    ELSE IF HasProperty(body, "error") /\ TypeOf(body) = "object"
         THEN IF ~IsObject(GetProperty(body, "error"))
              THEN InTypeError("message", GetProperty(body, "error"))
              ELSE IF HasProperty(GetProperty(body, "error"), "message")
                   THEN NewApiError(NewApiResponse(req, res, body))
                   ELSE UnknownError(res, body)
         ELSE UnknownError(res, body)

\* ApiResponse.from with the error shape tested before the ok flag.
ApiResponseFromShapeFirst(req, res, body) ==
    IF \/ ~res.ok
       \/ /\ IsObject(body) /\ HasProperty(body, "error")
          /\ IsObject(GetProperty(body, "error"))
          /\ HasProperty(GetProperty(body, "error"), "message")
    THEN ThrowFor(req, res, body)
    ELSE [kind |-> "ApiResponse"] @@ NewApiResponse(req, res, body)

\* ApiResponse.from with the success envelope built around the resources
\* array of a page instead of the body as sent.
ApiResponseFromUnwrapped(req, res, body) ==
    IF ~res.ok
    THEN ThrowFor(req, res, body)
    ELSE [kind |-> "ApiResponse"] @@
         NewApiResponse(req, res,
                        IF HasProperty(body, "resources") THEN GetProperty(body, "resources")
                        ELSE body)

\* ApiResponse.from, after res.json() has given body: what the call settles
\* to, a returned envelope or a thrown error.
ApiResponseFrom(req, res, body) ==
    IF ~res.ok
    THEN ThrowFor(req, res, body)
    ELSE [kind |-> "ApiResponse"] @@ NewApiResponse(req, res, body)

\* ------------------------------------------------------------------ inputs
\* Base URLs a client may be constructed with: pathname and search of an
\* absolute http(s) URL (the pathname of such a URL always starts with "/").
BaseUrls ==
    { [pathname |-> <<"/">>, search |-> <<>>],
      [pathname |-> <<"/", "v1">>, search |-> <<"?", "limit", "=", "9">>],
      [pathname |-> <<"/", "v1", "/">>, search |-> <<>>] }

\* Optional numeric arguments: absent, or a value (0 among them).
Limits == { <<>>, <<0>>, <<25>> }

Pages == { <<>>, <<2>> }

Sorts == { <<>>, <<<<"title", ":", "asc">>>> }

Ids == { <<"a1">> }

IdLists == { <<>>, <<<<"a1">>>>, <<<<"a1">>, <<"b2">>>> }

NoArgs == [limit |-> <<>>, page |-> <<>>, sort |-> <<>>]

ListOps ==
    {"listArtists", "listArtistAlbums", "listArtistTracks", "listAlbums",
     "listAlbumTracks", "listTracks"}

\* The operations whose declared result is a Page<T>.
PageOps == ListOps \cup {"getArtists"}

\* Responses of the transport: the platform sets ok for a status of 200..299.
ResponseOf(status) == [status |-> status, ok |-> status \in 200..299]

\* --------------------------------------------------------------- ApiClient
\* The query with each key set when its argument is truthy (if (limit) ...):
\* 0 is left out.
ListQueryTruthy(limit, page, sort) ==
    LET q0 == <<>>
        q1 == IF limit # <<>> /\ limit # <<0>>
              THEN UspSet(q0, <<"limit">>, NumberToString(limit[1])) ELSE q0
        q2 == IF page # <<>> /\ page # <<0>>
              THEN UspSet(q1, <<"page">>, NumberToString(page[1])) ELSE q1
        q3 == IF sort # <<>> THEN UspSet(q2, <<"sort">>, sort[1]) ELSE q2
    IN  q3

\* The query of lines 18-20 (and 50-52, 63-65, 75-77, 96-98, 109-112): a key
\* is set when its argument is not undefined.
ListQuery(limit, page, sort) ==
    LET q0 == <<>>
        q1 == IF limit # <<>> THEN UspSet(q0, <<"limit">>, NumberToString(limit[1])) ELSE q0
        q2 == IF page # <<>> THEN UspSet(q1, <<"page">>, NumberToString(page[1])) ELSE q1
        q3 == IF sort # <<>> THEN UspSet(q2, <<"sort">>, sort[1]) ELSE q2
    IN  q3

RECURSIVE IdsQuery(_)
\* The query of lines 30-31: one id pair per element, in order.
IdsQuery(ids) ==
    IF ids = <<>> THEN <<>>
    ELSE UspAppend(IdsQuery(SubSeq(ids, 1, Len(ids) - 1)), <<"id">>, ids[Len(ids)])

\* An endpoint method up to its first suspension: it constructs the request
\* with the default headers, method and body, and ApiClient.fetch calls
\* req.fetch(), which calls the platform's fetch(), all in one step.
Call(op, args, path, query) ==
    LET r == NewApiRequest(heap, api, path, query, <<>>, "GET", <<>>)
        k == Len(calls) + 1
    IN  /\ heap' = r.heap
        /\ reqs' = Append(reqs, r.req)
        /\ calls' = Append(calls, [op |-> op, req |-> Len(reqs) + 1, pc |-> "fetching",
                                   fetches |-> 1, res |-> <<>>, json |-> <<>>,
                                   out |-> <<>>])
        /\ sent' = <<[call |-> k, op |-> op, args |-> args, path |-> path, query |-> query]
                        @@ RequestFetch(r.heap, r.req)>>
        /\ UNCHANGED <<base0, made, cu>>

info == Call("info", NoArgs, <<"/">>, <<>>)

listArtists(limit, page) ==
    Call("listArtists", [NoArgs EXCEPT !.limit = limit, !.page = page],
         <<"/", "artists">>, ListQuery(limit, page, <<>>))

getArtists(ids) == Call("getArtists", NoArgs, <<"/", "artists">>, IdsQuery(ids))

getArtist(id) == Call("getArtist", NoArgs, <<"/", "artists", "/">> \o id, <<>>)

listArtistAlbums(id, limit, page) ==
    Call("listArtistAlbums", [NoArgs EXCEPT !.limit = limit, !.page = page],
         <<"/", "artists", "/">> \o id \o <<"/", "albums">>, ListQuery(limit, page, <<>>))

listArtistTracks(id, limit, page) ==
    Call("listArtistTracks", [NoArgs EXCEPT !.limit = limit, !.page = page],
         <<"/", "artists", "/">> \o id \o <<"/", "tracks">>, ListQuery(limit, page, <<>>))

listAlbums(limit, page) ==
    Call("listAlbums", [NoArgs EXCEPT !.limit = limit, !.page = page],
         <<"/", "albums">>, ListQuery(limit, page, <<>>))

getAlbum(id) == Call("getAlbum", NoArgs, <<"/", "albums", "/">> \o id, <<>>)

listAlbumTracks(id, limit, page) ==
    Call("listAlbumTracks", [NoArgs EXCEPT !.limit = limit, !.page = page],
         <<"/", "albums", "/">> \o id \o <<"/", "tracks">>, ListQuery(limit, page, <<>>))

listTracks(limit, page, sort) ==
    Call("listTracks", [limit |-> limit, page |-> page, sort |-> sort],
         <<"/", "tracks">>, ListQuery(limit, page, sort))

getTrack(id) == Call("getTrack", NoArgs, <<"/", "tracks", "/">> \o id, <<>>)

\* The promise of the platform's fetch() resolves with a Response.
Respond(k, res) ==
    /\ calls[k].pc = "fetching"
    /\ calls' = [calls EXCEPT ![k].pc = "decoding", ![k].res = <<res>>]
    /\ UNCHANGED <<heap, base0, reqs, sent, made, cu>>

\* The promise of the platform's fetch() rejects: the rejection passes through
\* ApiRequest.fetch, ApiClient.fetch and the endpoint method to the caller.
TransportFail(k) ==
    /\ calls[k].pc = "fetching"
    /\ calls' = [calls EXCEPT ![k].pc = "done", ![k].out = <<[kind |-> "TransportFailure"]>>]
    /\ UNCHANGED <<heap, base0, reqs, sent, made, cu>>

\* res.json() resolves with the parsed body; ApiResponse.from classifies it
\* and the endpoint method returns or throws what it gives.
Decode(k, body) ==
    /\ calls[k].pc = "decoding"
    /\ calls' = [calls EXCEPT ![k].pc = "done", ![k].json = <<body>>,
                              ![k].out = <<ApiResponseFrom(calls[k].req, calls[k].res[1], body)>>]
    /\ UNCHANGED <<heap, base0, reqs, sent, made, cu>>

\* res.json() rejects: the body is not JSON.
DecodeFail(k) ==
    /\ calls[k].pc = "decoding"
    /\ calls' = [calls EXCEPT ![k].pc = "done", ![k].out = <<[kind |-> "SyntaxError"]>>]
    /\ UNCHANGED <<heap, base0, reqs, sent, made, cu>>

\* A user's own construction of a descriptor on the client, with any method,
\* header overrides and body (the constructor is public).
Construct(path, query, headersInit, method, body) ==
    LET r == NewApiRequest(heap, api, path, query, headersInit, method, body)
    IN  /\ heap' = r.heap
        /\ reqs' = Append(reqs, r.req)
        /\ made' = <<[req |-> Len(reqs) + 1, path |-> path, query |-> query,
                      headersInit |-> headersInit, method |-> method, body |-> body]>>
        /\ UNCHANGED <<base0, calls, sent, cu>>

\* A user's own call of the public static ApiRequest.concatUrl on a URL.
ConcatUrlCall(path) ==
    LET c == concatUrl(heap, BaseRef, path)
    IN  /\ heap' = c.heap
        /\ cu' = Append(cu, [base |-> heap[BaseRef].pathname, path |-> path, ret |-> c.ret])
        /\ UNCHANGED <<base0, reqs, calls, sent, made>>

\* ------------------------------------------------------------ response data
Statuses == {200, 404}

\* Page<T> as the server may send it.
PageBody(page, limit, total, previous, next, resources) ==
    JObj(<< <<"page", JNum(page)>>, <<"limit", JNum(limit)>>, <<"total", JNum(total)>>,
            <<"href", JStr("/tracks?page=" \o ToString(page))>>,
            <<"previous", previous>>, <<"next", next>>,
            <<"resources", JArr(resources)>> >>)

Resource(id) == JObj(<< <<"id", JStr(id)>>, <<"title", JStr("Song")>> >>)

GoodPage == PageBody(1, 2, 2, JNull, JNull, <<Resource("t1"), Resource("t2")>>)

\* Bodies a server can answer with that break the pagination invariants:
\* more resources than limit, a previous link on page 1, a next link on the
\* last page.
LongPage == PageBody(1, 2, 3, JNull, JStr("/tracks?page=2"),
                     <<Resource("t1"), Resource("t2"), Resource("t3")>>)

PreviousOnFirstPage == PageBody(1, 2, 2, JStr("/tracks?page=0"), JNull, <<Resource("t1")>>)

NextOnLastPage == PageBody(2, 2, 4, JStr("/tracks?page=1"), JStr("/tracks?page=3"),
                           <<Resource("t3"), Resource("t4")>>)

ErrorBody(error) == JObj(<< <<"error", error>> >>)

MessageBody(message) == ErrorBody(JObj(<< <<"message", message>> >>))

\* Parsed bodies: resources and pages, the documented error shape (with a
\* string message and with messages of other kinds), and every way of missing
\* that shape.
Bodies ==
    { Resource("t1"), GoodPage, LongPage, PreviousOnFirstPage, NextOnLastPage,
      MessageBody(JStr("not found")), MessageBody(JNum(42)), MessageBody(JNull),
      JObj(<< <<"foo", JStr("bar")>> >>),
      ErrorBody(JStr("oops")), ErrorBody(JNum(7)), ErrorBody(JNull),
      ErrorBody(JObj(<< <<"code", JNum(1)>> >>)), ErrorBody(JArr(<<>>)),
      JArr(<<JNum(1)>>), JNull, JNum(3), JStr("oops"), JBool(FALSE) }

\* ---------------------------------------------------------- specifications
Empty == <<>>

\* A client constructed on one of the base URLs; nothing called yet.
Init ==
    /\ \E b \in BaseUrls : heap = [r \in {BaseRef} |-> b] /\ base0 = b
    /\ reqs = Empty /\ calls = Empty /\ sent = Empty /\ made = Empty /\ cu = Empty

\* Spec: calls with every combination of arguments, each answered by the
\* server with a page; calls overlap freely.
More == Len(calls) < MaxCalls

Next ==
    \/ More /\ info
    \/ \E l \in Limits, p \in Pages : More /\ listArtists(l, p)
    \/ \E ids \in IdLists : More /\ getArtists(ids)
    \/ \E id \in Ids : More /\ getArtist(id)
    \/ \E id \in Ids, l \in Limits, p \in Pages : More /\ listArtistAlbums(id, l, p)
    \/ \E id \in Ids, l \in Limits, p \in Pages : More /\ listArtistTracks(id, l, p)
    \/ \E l \in Limits, p \in Pages : More /\ listAlbums(l, p)
    \/ \E id \in Ids : More /\ getAlbum(id)
    \/ \E id \in Ids, l \in Limits, p \in Pages : More /\ listAlbumTracks(id, l, p)
    \/ \E l \in Limits, p \in Pages, s \in Sorts : More /\ listTracks(l, p, s)
    \/ \E id \in Ids : More /\ getTrack(id)
    \/ \E k \in 1..Len(calls) : Respond(k, ResponseOf(200))
    \/ \E k \in 1..Len(calls) : Decode(k, GoodPage)

Spec == Init /\ [][Next]_vars

\* SpecClassify: calls without optional arguments, answered in every way:
\* no response, a response of either status, a body that is not JSON, or any
\* of the parsed bodies.
MoreClassify == Len(calls) < MaxClassifyCalls

NextClassify ==
    \/ MoreClassify /\ info
    \/ MoreClassify /\ listArtists(<<>>, <<>>)
    \/ MoreClassify /\ getArtists(<<<<"a1">>, <<"b2">>>>)
    \/ \E id \in Ids : MoreClassify /\ getArtist(id)
    \/ \E id \in Ids : MoreClassify /\ listArtistAlbums(id, <<>>, <<>>)
    \/ \E id \in Ids : MoreClassify /\ listArtistTracks(id, <<>>, <<>>)
    \/ MoreClassify /\ listAlbums(<<>>, <<>>)
    \/ \E id \in Ids : MoreClassify /\ getAlbum(id)
    \/ \E id \in Ids : MoreClassify /\ listAlbumTracks(id, <<>>, <<>>)
    \/ MoreClassify /\ listTracks(<<>>, <<>>, <<>>)
    \/ \E id \in Ids : MoreClassify /\ getTrack(id)
    \/ \E k \in 1..Len(calls), s \in Statuses : Respond(k, ResponseOf(s))
    \/ \E k \in 1..Len(calls) : TransportFail(k)
    \/ \E k \in 1..Len(calls), b \in Bodies : Decode(k, b)
    \/ \E k \in 1..Len(calls) : DecodeFail(k)

SpecClassify == Init /\ [][NextClassify]_vars

\* SpecRequest: descriptors constructed directly with any method, header
\* overrides and body.
Methods == {"GET", "HEAD", "POST", "get"}

HeaderInits ==
    { <<>>,
      << <<"content-type", "text/plain">> >>,
      << <<"Content-Type", "text/plain">> >>,
      << <<"CONTENT-TYPE", "text/xml">>, <<"Accept", "text/html">> >>,
      << <<"Content-Type", "text/plain">>, <<"content-type", "text/xml">> >> }

RequestBodies ==
    { <<>>, <<NewJsonBody(Resource("t1"))>>, <<NewBody("text/csv", <<"a,b">>)>> }

NextRequest ==
    /\ Len(reqs) < MaxRequests
    /\ \E m \in Methods, hi \in HeaderInits, b \in RequestBodies :
           Construct(<<"/", "tracks">>, <<>>, hi, m, b)

SpecRequest == Init /\ [][NextRequest]_vars

\* SpecConcat: concatUrl called directly on a URL with a relative path.
ConcatBases ==
    { [pathname |-> p, search |-> <<>>] :
        p \in { <<"/">>, <<"/", "v1">>, <<"/", "v1", "/">>, <<"/", "api", "/", "v1">> } }

ConcatPaths ==
    { <<"/", "tracks">>, <<"tracks">>, <<"/">>, <<"tracks", "/", "t1">>,
      <<"/", "tracks", "/">> }

InitConcat ==
    /\ \E b \in ConcatBases : heap = [r \in {BaseRef} |-> b] /\ base0 = b
    /\ reqs = Empty /\ calls = Empty /\ sent = Empty /\ made = Empty /\ cu = Empty

NextConcat ==
    /\ Len(cu) < MaxConcats
    /\ \E p \in ConcatPaths : ConcatUrlCall(p)

SpecConcat == InitConcat /\ [][NextConcat]_vars

\* ------------------------------------------------------------------ claims
Done(k) == calls[k].pc = "done"

\* A call whose response arrived with the given ok flag and whose body parsed.
Parsed(k, ok) ==
    Done(k) /\ calls[k].res # <<>> /\ calls[k].res[1].ok = ok /\ calls[k].json # <<>>

\* The documented error shape {error: {message}}.
HasErrorShape(b) ==
    /\ b.t = "object" /\ HasProperty(b, "error")
    /\ GetProperty(b, "error").t = "object"
    /\ HasProperty(GetProperty(b, "error"), "message")

ErrorMessageOf(b) == GetProperty(GetProperty(b, "error"), "message")

\* C1: a response with ok = true whose body parses yields a success envelope
\* holding exactly the parsed value, the originating request and the raw
\* result, whatever the shape of the body; nothing is thrown.
C1_SuccessEnvelope ==
    \A k \in 1..Len(calls) :
        Parsed(k, TRUE) =>
            LET out == calls[k].out[1]
            IN  /\ out.kind = "ApiResponse"
                /\ out.body = calls[k].json[1]
                /\ out.req = calls[k].req
                /\ out.res = calls[k].res[1]

\* C1 witness: an ok response whose body has the error shape was returned as
\* a success envelope.
C1_Witness ==
    \E k \in 1..Len(calls) :
        /\ Parsed(k, TRUE)
        /\ calls[k].json[1] = MessageBody(JStr("not found"))
        /\ calls[k].out[1].kind = "ApiResponse"

\* The envelope an ApiError must carry for call k.
EnvelopeOf(k) == NewApiResponse(calls[k].req, calls[k].res[1], calls[k].json[1])

\* A call is classified as ApiError only for a non-ok response of error shape.
ApiErrorOnlyForShape ==
    \A k \in 1..Len(calls) :
        (Done(k) /\ calls[k].out[1].kind = "ApiError") =>
            Parsed(k, FALSE) /\ HasErrorShape(calls[k].json[1])

\* C2 as stated: a non-ok response of error shape fails with an ApiError whose
\* message equals body.error.message and whose res is the full envelope, and
\* ApiError arises only so.
C2_Original ==
    /\ ApiErrorOnlyForShape
    /\ \A k \in 1..Len(calls) :
        (Parsed(k, FALSE) /\ HasErrorShape(calls[k].json[1])) =>
            LET out == calls[k].out[1]
                m   == ErrorMessageOf(calls[k].json[1])
            IN  /\ out.kind = "ApiError"
                /\ m.t = "string" /\ out.message = <<m.s>>
                /\ out.res = EnvelopeOf(k)

\* C2 amended: a non-ok response of error shape fails with an ApiError whose
\* res is the full envelope and whose message is body.error.message when that
\* is a string and its string conversion otherwise ("42" for 42, "null" for
\* null); ApiError arises only so.
C2_Amended ==
    /\ ApiErrorOnlyForShape
    /\ \A k \in 1..Len(calls) :
        (Parsed(k, FALSE) /\ HasErrorShape(calls[k].json[1])) =>
            LET out == calls[k].out[1]
                m   == ErrorMessageOf(calls[k].json[1])
            IN  /\ out.kind = "ApiError"
                /\ m.t = "string" => out.message = <<m.s>>
                /\ m.t = "number" => out.message = <<ToString(m.n)>>
                /\ m.t = "null" => out.message = <<"null">>
                /\ out.res = EnvelopeOf(k)

\* C2 witness: a 404 with {"error":{"message":"not found"}} was thrown as an
\* ApiError with that message.
C2_Witness ==
    \E k \in 1..Len(calls) :
        /\ Parsed(k, FALSE)
        /\ calls[k].json[1] = MessageBody(JStr("not found"))
        /\ calls[k].out[1].kind = "ApiError"
        /\ calls[k].out[1].message = <<"not found">>

\* C3: a non-ok response whose parsed body lacks the error shape fails with an
\* Error that is no ApiError and whose text contains the status code and the
\* JSON serialisation of the body.
C3_UnrecognizedError ==
    \A k \in 1..Len(calls) :
        (Parsed(k, FALSE) /\ ~HasErrorShape(calls[k].json[1])) =>
            LET out == calls[k].out[1]
            IN  /\ out.kind \in {"Error", "TypeError"}
                /\ Contains(out.message, NumberToString(calls[k].res[1].status))
                /\ Contains(out.message, Stringify(calls[k].json[1]))

\* The path the claims ask of a join: the base path and the relative path
\* with exactly one slash between them.
StripTrailingSlash(s) == IF endsWith(s, "/") THEN SubSeq(s, 1, Len(s) - 1) ELSE s

StripLeadingSlash(s) == IF startsWith(s, "/") THEN Tail(s) ELSE s

JoinedPath(base, path) == StripTrailingSlash(base) \o <<"/">> \o StripLeadingSlash(path)

\* C4: concatUrl returns a URL whose path is the base path and the relative
\* path with exactly one slash between them, in all four combinations.
C4_ExactlyOneSlash ==
    cu # <<>> =>
        LET c == cu[Len(cu)]
        IN  heap[c.ret].pathname = JoinedPath(c.base, c.path)

\* C5: the client's baseUrl keeps the path and query it was constructed with,
\* and the URL a call sends is the join of that original base path with the
\* call's own path, carrying the call's own query only.
C5_NoSharedState ==
    /\ heap[api.baseUrl] = base0
    /\ sent # <<>> =>
        /\ sent[1].url.pathname = JoinedPath(base0.pathname, sent[1].path)
        /\ sent[1].url.search = SetSearch(base0, UspToString(sent[1].query)).search

\* C6: a constructed descriptor never changes: its url (path and query),
\* method, headers and body stay what they were, also for the request inside
\* an envelope, whatever is constructed later.
C6_DescriptorImmutable ==
    [][\A i \in 1..Len(reqs) :
          /\ reqs'[i] = reqs[i]
          /\ heap'[reqs[i].url] = heap[reqs[i].url]]_vars

\* The values a caller supplied for a header name, under any spelling.
Supplied(init, name) ==
    LET mine == SelectSeq(init, LAMBDA e : Lower(e[1]) = Lower(name))
    IN  IF mine = <<>> THEN None
        ELSE JoinWith([i \in 1..Len(mine) |-> <<mine[i][2]>>], <<", ">>)

HeaderNames == {"content-type", "Content-Type", "CONTENT-TYPE", "Accept", "accept"}

\* C7: the descriptor's body is non-null only if a body was supplied and the
\* method is neither GET nor HEAD; with a body, content-type is the body's
\* contentType under every spelling, whatever the caller supplied; without
\* one, the headers are the caller's.
C7_BodyAndContentType ==
    made # <<>> =>
        LET m == made[1]
            r == reqs[m.req]
        IN  /\ r.body # <<>> =>
                /\ m.body # <<>> /\ m.method \notin {"GET", "HEAD"}
                /\ r.body = m.body
                /\ \A n \in {"content-type", "Content-Type", "CONTENT-TYPE"} :
                       HeadersGet(r.headers, n) = <<m.body[1].contentType>>
            /\ r.body = <<>> =>
                \A n \in HeaderNames : HeadersGet(r.headers, n) = Supplied(m.headersInit, n)

\* C7 witness: a POST with a JsonBody over a caller's Content-Type: text/plain
\* carries content-type application/json.
C7_Witness ==
    /\ made # <<>>
    /\ made[1].method = "POST"
    /\ made[1].body = <<NewJsonBody(Resource("t1"))>>
    /\ made[1].headersInit = << <<"Content-Type", "text/plain">> >>
    /\ reqs[made[1].req].body # <<>>
    /\ HeadersGet(reqs[made[1].req].headers, "content-type") = <<"application/json">>

\* Every call has issued one network call, with its descriptor's method,
\* headers and body.
OneNetworkCall ==
    /\ \A k \in 1..Len(calls) : calls[k].fetches = 1
    /\ sent # <<>> =>
        LET r == reqs[calls[sent[1].call].req]
        IN  /\ sent[1].method = r.method
            /\ sent[1].headers = r.headers
            /\ sent[1].body = (IF r.body = <<>> THEN <<>> ELSE <<r.body[1].body>>)

\* C8: every call issues exactly one network call with the descriptor's
\* method, headers and body, and surfaces one outcome, which is a success
\* envelope, an ApiError, the unknown-error Error, a decode failure or a
\* transport failure.
C8_OneCallOneOutcome ==
    /\ OneNetworkCall
    /\ \A k \in 1..Len(calls) :
        /\ Done(k) <=> calls[k].out # <<>>
        /\ Done(k) =>
            calls[k].out[1].kind \in
                {"ApiResponse", "ApiError", "Error", "SyntaxError", "TransportFailure"}

\* C9: the query of a list operation's URL has the key limit (page, sort)
\* exactly when that argument was given, 0 included, and is empty when none
\* was, whatever query the base URL or an earlier call carried.
C9_QueryKeys ==
    (sent # <<>> /\ sent[1].op \in ListOps) =>
        LET names == SearchNames(sent[1].url.search)
            a     == sent[1].args
        IN  /\ <<"limit">> \in names <=> a.limit # <<>>
            /\ <<"page">> \in names <=> a.page # <<>>
            /\ <<"sort">> \in names <=> a.sort # <<>>
            /\ a = NoArgs => sent[1].url.search = <<>>

\* C9 witness: on a client whose base URL had a query of its own, a second
\* call with limit 0 and no page sent limit and not page.
C9_Witness ==
    /\ base0.search # <<>>
    /\ Len(calls) = 2
    /\ sent # <<>> /\ sent[1].call = 2 /\ sent[1].op \in ListOps
    /\ sent[1].args.limit = <<0>> /\ sent[1].args.page = <<>>
    /\ SearchNames(sent[1].url.search) = {<<"limit">>}

\* Whether a parsed body is a Page<T>.
IsPage(v) ==
    /\ v.t = "object"
    /\ \A key \in {"page", "limit", "total", "href", "previous", "next", "resources"} :
           HasProperty(v, key)
    /\ \A key \in {"page", "limit", "total"} : GetProperty(v, key).t = "number"
    /\ GetProperty(v, "resources").t = "array"

\* The pagination invariants of a Page<T>.
PageInvariants(v) ==
    /\ IsPage(v)
    /\ Len(GetProperty(v, "resources").items) <= GetProperty(v, "limit").n
    /\ GetProperty(v, "page").n = 1 => GetProperty(v, "previous") = JNull
    /\ GetProperty(v, "page").n * GetProperty(v, "limit").n >= GetProperty(v, "total").n
           => GetProperty(v, "next") = JNull

ReturnedPage(k) ==
    Done(k) /\ calls[k].op \in PageOps /\ calls[k].out[1].kind = "ApiResponse"

\* C10 as stated: every Page<T> a list-returning operation returns satisfies
\* the pagination invariants, whatever body the server sent.
C10_Original ==
    \A k \in 1..Len(calls) : ReturnedPage(k) => PageInvariants(calls[k].out[1].body)

\* C10 amended: the Page<T> a list-returning operation returns is the body the
\* server sent with the ok response, unchanged and unvalidated; it satisfies
\* the pagination invariants exactly when the server's body does.
C10_Amended ==
    \A k \in 1..Len(calls) :
        ReturnedPage(k) =>
            /\ calls[k].out[1].body = calls[k].json[1]
            /\ PageInvariants(calls[k].out[1].body) <=> PageInvariants(calls[k].json[1])

\* C10 witness: a list operation returned a page that satisfies the
\* invariants, as the server sent it.
C10_Witness ==
    \E k \in 1..Len(calls) :
        /\ ReturnedPage(k)
        /\ calls[k].json[1] = GoodPage
        /\ PageInvariants(calls[k].out[1].body)
====
